---------------------------- MODULE Spec2Model ----------------------------
(***************************************************************************)
(* Focus-one: the day store of App (src/unnamed/part_000), its handlers,   *)
(* the gateway post-processing of src/services/geminiService.ts and the    *)
(* triggers of src/components/FocusView.tsx, as a state machine.           *)
(*                                                                         *)
(* Representation.  A JavaScript string on which the code computes         *)
(* (times, labels, titles) is a sequence of one-character strings; a time  *)
(* "HH:MM" is the five characters the code formats, and it is compared as  *)
(* JavaScript compares strings, code unit by code unit.  Ids are sequences *)
(* of id parts, so that `${id}-truncated` is Append(id, "-truncated").     *)
(* An optional value is a sequence of length 0 (undefined) or 1.  A        *)
(* handler that awaits the gateway is two actions, the part before the     *)
(* await and the part after it, and the second one reads the variables of  *)
(* the render in which the handler was created (its closure), which the    *)
(* first one saved in the request.                                         *)
(***************************************************************************)
EXTENDS Integers, Sequences, FiniteSets, TLC

\* ------------------------------------------------------------------ bounds
\* Gateway calls (generate, replan, chat plan) made in one session.
MaxCalls == 2
\* Toggles, distractions and assistant messages of the user in one session;
\* a toggle that takes back the one just made is not counted.
MaxEdits == 1

\* ----------------------------------------------------------------- strings
Undefined == << >>
Some(v) == << v >>

\* UTF-16 code unit of the characters that occur in a time string.
CharCode(c) ==
  CASE c = "0" -> 48 [] c = "1" -> 49 [] c = "2" -> 50 [] c = "3" -> 51
    [] c = "4" -> 52 [] c = "5" -> 53 [] c = "6" -> 54 [] c = "7" -> 55
    [] c = "8" -> 56 [] c = "9" -> 57 [] c = ":" -> 58

\* JavaScript's a < b on strings: the first differing code unit decides, and
\* a proper prefix is smaller.
\* A comparison that looks at the first code unit only.
StrLessFirstUnit(a, b) ==
  a # << >> /\ b # << >> /\ CharCode(a[1]) < CharCode(b[1])

RECURSIVE StrLess(_, _)
StrLess(a, b) ==
  IF b = << >> THEN FALSE
  ELSE IF a = << >> THEN TRUE
  ELSE IF CharCode(Head(a)) # CharCode(Head(b))
       THEN CharCode(Head(a)) < CharCode(Head(b))
       ELSE StrLess(Tail(a), Tail(b))

StrLessEq(a, b) == a = b \/ StrLess(a, b)

\* Number.prototype.toString() of a natural number below 100.
DigitChar(d) ==
  CASE d = 0 -> "0" [] d = 1 -> "1" [] d = 2 -> "2" [] d = 3 -> "3"
    [] d = 4 -> "4" [] d = 5 -> "5" [] d = 6 -> "6" [] d = 7 -> "7"
    [] d = 8 -> "8" [] d = 9 -> "9"

NumToString(n) ==
  IF n < 10 THEN << DigitChar(n) >>
  ELSE << DigitChar(n \div 10), DigitChar(n % 10) >>

\* String.prototype.padStart(2, '0')
PadStart2(s) == IF Len(s) < 2 THEN << "0" >> \o s ELSE s

\* getCurrentTimeStr: the wall clock, in minutes since midnight, as "HH:MM".
getCurrentTimeStr(clockMinutes) ==
  PadStart2(NumToString(clockMinutes \div 60)) \o << ":" >>
    \o PadStart2(NumToString(clockMinutes % 60))

\* String.prototype.includes
Includes(s, sub) ==
  \E i \in 0..(Len(s) - Len(sub)) : SubSeq(s, i + 1, i + Len(sub)) = sub

\* String.prototype.toLowerCase, on the letters the model's texts use.
LowerChar(c) ==
  CASE c = "B" -> "b" [] c = "D" -> "d" [] c = "E" -> "e" [] c = "G" -> "g"
    [] c = "P" -> "p" [] c = "R" -> "r" [] c = "W" -> "w" [] OTHER -> c

ToLowerCase(s) == [i \in 1..Len(s) |-> LowerChar(s[i])]

\* The texts the handlers test for and append.
PartialTag == << "(", "P", "a", "r", "t", "i", "a", "l", ")" >>
DoneTag == << "(", "D", "o", "n", "e", ")" >>
EfficiencyBonus == << "E", "f", "f", "i", "c", "i", "e", "n", "c", "y", " ",
                      "B", "o", "n", "u", "s" >>

\* getMinutes: timeStr.split(':').map(Number), then h * 60 + m.
DigitValue(c) == CharCode(c) - 48

RECURSIVE NumberOf(_)
NumberOf(s) ==
  IF s = << >> THEN 0
  ELSE NumberOf(SubSeq(s, 1, Len(s) - 1)) * 10 + DigitValue(s[Len(s)])

ColonAt(s) == CHOOSE i \in 1..Len(s) : s[i] = ":"

getMinutes(timeStr) ==
  NumberOf(SubSeq(timeStr, 1, ColonAt(timeStr) - 1)) * 60
    + NumberOf(SubSeq(timeStr, ColonAt(timeStr) + 1, Len(timeStr)))

\* ------------------------------------------------------------------- types
\* A null or empty id (both are falsy where the code tests an id).
NullId == << >>

\* Task: the fields the store and the reconciler read or write; the other
\* fields of a Task (durationMinutes, isFixed, priority, energyLevel, domain)
\* are only copied.
Task(id, title, completed) ==
  [id |-> id, title |-> title, completed |-> completed]

\* TimeBlock
TimeBlock(id, startTime, endTime, label, type, taskId, isCompleted, energyLevel, domain) ==
  [id |-> id, startTime |-> startTime, endTime |-> endTime, label |-> label,
   type |-> type, taskId |-> taskId, isCompleted |-> isCompleted,
   energyLevel |-> energyLevel, domain |-> domain]

\* A default record that does not carry the date asked for.
EmptyDayUndated(date) ==
  [tasks |-> << >>, schedule |-> << >>, explanation |-> "", date |-> "",
   distractions |-> << >>]

\* The record getDayData makes for a date the store does not hold.
EmptyDay(date) ==
  [tasks |-> << >>, schedule |-> << >>, explanation |-> "", date |-> date,
   distractions |-> << >>]

\* { ...a, ...b } on objects
Spread(a, b) ==
  [k \in DOMAIN a \cup DOMAIN b |-> IF k \in DOMAIN b THEN b[k] ELSE a[k]]

\* rec.previousVersion, undefined when the key is missing.
PreviousVersionOf(rec) ==
  IF "previousVersion" \in DOMAIN rec THEN rec.previousVersion ELSE Undefined

\* --------------------------------------------------------------- day store
\* getDayData of the render whose store is `days`.
getDayData(days, date) ==
  IF date \in DOMAIN days THEN days[date] ELSE EmptyDay(date)

\* An update that spreads the store of the handler's own render,
\* setDays({ ...days, [date]: ... }), instead of the store React hands it.
updateDayDataOfRender(prev, days, date, updates) ==
  [d \in DOMAIN days \cup {date} |->
     IF d = date THEN Spread(getDayData(days, date), updates) ELSE days[d]]

\* updateDayData.  `prev` is the store at the time React applies the update;
\* `days` is the store of the render that created the handler, which is where
\* its getDayData reads the record that the updates are spread over.
updateDayData(prev, days, date, updates) ==
  [d \in DOMAIN prev \cup {date} |->
     IF d = date THEN Spread(getDayData(days, date), updates) ELSE prev[d]]

\* A truncated copy cut at the block's own start.
TruncatedBlockAtStart(block, currentTime) ==
  Spread(block,
    [id |-> Append(block.id, "-truncated"),
     endTime |-> block.startTime,
     label |-> block.label])

\* -------------------------------------------------- adaptive replan, part 1
\* The block pushed for a block that straddles currentTime.
TruncatedBlock(block, currentTime) ==
  Spread(block,
    [id |-> Append(block.id, "-truncated"),
     endTime |-> currentTime,
     label |-> IF Includes(block.label, PartialTag) THEN block.label
               ELSE block.label \o << " " >> \o PartialTag,
     isCompleted |-> block.isCompleted,
     domain |-> block.domain])

\* PastOf with the first comparison strict: a block that ends exactly at
\* currentTime is then neither kept nor truncated.
PastOfStrict(block, currentTime) ==
  IF StrLess(block.endTime, currentTime) THEN << block >>
  ELSE IF StrLess(block.startTime, currentTime)
          /\ StrLess(currentTime, block.endTime)
       THEN << TruncatedBlock(block, currentTime) >>
       ELSE << >>

\* What the forEach of handleReplan pushes for one block.
PastOf(block, currentTime) ==
  IF StrLessEq(block.endTime, currentTime) THEN << block >>
  ELSE IF StrLess(block.startTime, currentTime)
          /\ StrLess(currentTime, block.endTime)
       THEN << TruncatedBlock(block, currentTime) >>
       ELSE << >>

\* pastBlocks after the forEach over currentData.schedule.
RECURSIVE PastBlocks(_, _)
PastBlocks(schedule, currentTime) ==
  IF schedule = << >> THEN << >>
  ELSE PastOf(Head(schedule), currentTime)
         \o PastBlocks(Tail(schedule), currentTime)

\* The snapshot handleReplan takes of currentData.
SnapshotOf(currentData) ==
  [tasks |-> currentData.tasks, schedule |-> currentData.schedule,
   explanation |-> currentData.explanation]

\* ReplanUpdates with the two parts of the schedule the other way round.
ReplanUpdatesFreshFirst(pastBlocks, result, previousVersion) ==
  [tasks |-> result.tasks,
   schedule |-> result.schedule \o pastBlocks,
   explanation |-> result.explanation,
   previousVersion |-> Some(previousVersion)]

\* The updates handleReplan passes to updateDayData.
ReplanUpdates(pastBlocks, result, previousVersion) ==
  [tasks |-> result.tasks,
   schedule |-> pastBlocks \o result.schedule,
   explanation |-> result.explanation,
   previousVersion |-> Some(previousVersion)]

\* -------------------------------------------------------------------- undo
\* UndoUpdates that leaves the explanation of the replan in place.
UndoUpdatesKeepingText(previousVersion) ==
  [tasks |-> previousVersion.tasks,
   schedule |-> previousVersion.schedule,
   previousVersion |-> Undefined]

\* The updates handleUndo passes to updateDayData.
UndoUpdates(previousVersion) ==
  [tasks |-> previousVersion.tasks,
   schedule |-> previousVersion.schedule,
   explanation |-> previousVersion.explanation,
   previousVersion |-> Undefined]

\* ------------------------------------------------- task-completion toggle
\* The map of the tasks that sets the flag instead of negating it.
ToggleTasksCompleting(tasks, taskId) ==
  [i \in 1..Len(tasks) |->
     IF tasks[i].id = taskId
     THEN Spread(tasks[i], [completed |-> TRUE])
     ELSE tasks[i]]

\* newTasks of handleToggleTask.
ToggleTasks(tasks, taskId) ==
  [i \in 1..Len(tasks) |->
     IF tasks[i].id = taskId
     THEN Spread(tasks[i], [completed |-> ~tasks[i].completed])
     ELSE tasks[i]]

\* isNowCompleted after the map: false unless a task matched, and then the
\* negation of the last match's flag.
IsNowCompleted(tasks, taskId) ==
  LET hits == {i \in 1..Len(tasks) : tasks[i].id = taskId}
  IN  IF hits = {} THEN FALSE
      ELSE ~tasks[CHOOSE i \in hits : \A j \in hits : j <= i].completed

\* The flatMap body without the split: the linked block is only marked.
SplitOfWhole(block, taskId, currentTime) ==
  IF block.taskId = taskId
  THEN << Spread(block, [isCompleted |-> TRUE]) >>
  ELSE << block >>

\* The flatMap body with the bounds of the block counted as inside it.
SplitOfInclusive(block, taskId, currentTime) ==
  IF block.taskId = taskId
  THEN IF StrLessEq(block.startTime, currentTime)
          /\ StrLessEq(currentTime, block.endTime)
       THEN << Spread(block,
                 [endTime |-> currentTime,
                  isCompleted |-> TRUE,
                  label |-> block.label \o << " " >> \o DoneTag]),
               TimeBlock(Append(block.id, "-buffer"), currentTime,
                         block.endTime, EfficiencyBonus, "break", NullId,
                         FALSE, "low", "Routine") >>
       ELSE << Spread(block, [isCompleted |-> TRUE]) >>
  ELSE << block >>

\* The flatMap body with the buffer block under the id of the block it was
\* cut from.
SplitOfUnderOneId(block, taskId, currentTime) ==
  IF block.taskId = taskId
  THEN IF StrLess(block.startTime, currentTime)
          /\ StrLess(currentTime, block.endTime)
       THEN << Spread(block,
                 [endTime |-> currentTime,
                  isCompleted |-> TRUE,
                  label |-> block.label \o << " " >> \o DoneTag]),
               TimeBlock(block.id, currentTime,
                         block.endTime, EfficiencyBonus, "break", NullId,
                         FALSE, "low", "Routine") >>
       ELSE << Spread(block, [isCompleted |-> TRUE]) >>
  ELSE << block >>

\* What the flatMap of the today branch returns for one block.
SplitOf(block, taskId, currentTime) ==
  IF block.taskId = taskId
  THEN IF StrLess(block.startTime, currentTime)
          /\ StrLess(currentTime, block.endTime)
       THEN << Spread(block,
                 [endTime |-> currentTime,
                  isCompleted |-> TRUE,
                  label |-> block.label \o << " " >> \o DoneTag]),
               TimeBlock(Append(block.id, "-buffer"), currentTime,
                         block.endTime, EfficiencyBonus, "break", NullId,
                         FALSE, "low", "Routine") >>
       ELSE << Spread(block, [isCompleted |-> TRUE]) >>
  ELSE << block >>

RECURSIVE FlatMapSplit(_, _, _)
FlatMapSplit(schedule, taskId, currentTime) ==
  IF schedule = << >> THEN << >>
  ELSE SplitOf(Head(schedule), taskId, currentTime)
         \o FlatMapSplit(Tail(schedule), taskId, currentTime)

\* The map without its test: every block is marked.
MarkBlocksAll(schedule, taskId, v) ==
  [i \in 1..Len(schedule) |-> Spread(schedule[i], [isCompleted |-> v])]

\* schedule.map(b => b.taskId === taskId ? { ...b, isCompleted: v } : b)
MarkBlocks(schedule, taskId, v) ==
  [i \in 1..Len(schedule) |->
     IF schedule[i].taskId = taskId
     THEN Spread(schedule[i], [isCompleted |-> v])
     ELSE schedule[i]]

\* newSchedule of handleToggleTask.
ToggleSchedule(currentData, taskId, isToday, currentTime) ==
  LET isNowCompleted == IsNowCompleted(currentData.tasks, taskId)
  IN  IF isToday
      THEN IF isNowCompleted
           THEN FlatMapSplit(currentData.schedule, taskId, currentTime)
           ELSE MarkBlocks(currentData.schedule, taskId, FALSE)
      ELSE IF isNowCompleted
           THEN MarkBlocks(currentData.schedule, taskId, TRUE)
           ELSE MarkBlocks(currentData.schedule, taskId, FALSE)

\* The updates handleToggleTask passes to updateDayData.
ToggleUpdates(currentData, taskId, isToday, currentTime) ==
  [tasks |-> ToggleTasks(currentData.tasks, taskId),
   schedule |-> ToggleSchedule(currentData, taskId, isToday, currentTime)]

\* ------------------------------------------------ gateway post-processing
\* `block-${Date.now()}-${i}` and its like: a prefix, the time stamp and the
\* index, as id parts.
StampedId(prefix, stamp, i) == << prefix, ToString(stamp), "-", ToString(i) >>

\* x || 'Routine'
OrRoutine(domain) == IF domain = "" THEN "Routine" ELSE domain

\* generateDailyPlan on a parsed answer `data`, at Date.now() = stamp.
generateDailyPlan(data, stamp) ==
  [explanation |-> data.explanation,
   schedule |->
     [i \in 1..Len(data.schedule) |->
        Spread(data.schedule[i],
          [id |-> StampedId("block-", stamp, i - 1),
           isCompleted |-> FALSE,
           taskId |-> data.schedule[i].taskId,
           domain |-> OrRoutine(data.schedule[i].domain)])]]

\* generateDailyPlan when the call or the parse throws.
generateDailyPlanFailed ==
  [schedule |-> << >>, explanation |-> "AI Generation Failed. Please try again."]

\* finalTasks of adaptiveReplan.
FinalTasks(tasks, stamp) ==
  [i \in 1..Len(tasks) |->
     Spread(tasks[i],
       [id |-> IF tasks[i].id # NullId THEN tasks[i].id
               ELSE StampedId("new-task-", stamp, i - 1)])]

\* finalTasks.find(t => label includes title || title includes label), on
\* lower-cased texts: the id of the first such task, or null.
TitleMatch(finalTasks, label) ==
  LET hits == {i \in 1..Len(finalTasks) :
                 \/ Includes(ToLowerCase(label), ToLowerCase(finalTasks[i].title))
                 \/ Includes(ToLowerCase(finalTasks[i].title), ToLowerCase(label))}
  IN  IF hits = {} THEN NullId
      ELSE finalTasks[CHOOSE i \in hits : \A j \in hits : i <= j].id

\* linkedTaskId || null for one answered block of adaptiveReplan.
LinkedTaskId(b, finalTasks) ==
  LET taskExists == \E i \in 1..Len(finalTasks) : finalTasks[i].id = b.taskId
      matching == TitleMatch(finalTasks, b.label)
  IN  IF (b.taskId = NullId \/ ~taskExists) /\ b.type = "work"
         /\ matching # NullId
      THEN matching
      ELSE b.taskId

\* adaptiveReplan on a parsed answer `data`, at Date.now() = stamp.
adaptiveReplan(data, stamp) ==
  LET finalTasks == FinalTasks(data.tasks, stamp)
  IN  [explanation |-> data.explanation,
       tasks |-> finalTasks,
       schedule |->
         [i \in 1..Len(data.schedule) |->
            Spread(data.schedule[i],
              [id |-> StampedId("replan-block-", stamp, i - 1),
               isCompleted |-> FALSE,
               taskId |-> LinkedTaskId(data.schedule[i], finalTasks),
               domain |-> OrRoutine(data.schedule[i].domain)])]]

\* adaptiveReplanFailed that gives back no tasks.
adaptiveReplanFailedEmpty(tasks) ==
  [tasks |-> << >>, schedule |-> << >>,
   explanation |-> "Replan failed. Please try again."]

\* adaptiveReplan when the call or the parse throws.
adaptiveReplanFailed(tasks) ==
  [tasks |-> tasks, schedule |-> << >>,
   explanation |-> "Replan failed. Please try again."]

\* generateScheduleFromChat on a parsed answer `data`, at Date.now() = stamp.
generateScheduleFromChat(data, stamp) ==
  LET processedTasks ==
        [i \in 1..Len(data.tasks) |->
           Spread(data.tasks[i],
             [id |-> StampedId("task-", stamp, i - 1), completed |-> FALSE])]
  IN  [explanation |-> data.explanation,
       tasks |-> processedTasks,
       schedule |->
         [i \in 1..Len(data.schedule) |->
            Spread(data.schedule[i],
              [id |-> StampedId("block-", stamp, i - 1),
               isCompleted |-> FALSE,
               taskId |-> TitleMatch(processedTasks, data.schedule[i].label),
               domain |-> OrRoutine(data.schedule[i].domain)])]]

\* ---------------------------------------------------------------- the data
\* getTodayStr() during the session, and the dates of the calendar strip.
todayStr == "2024-05-02"
Dates == {"2024-05-01", "2024-05-02"}

\* The instants, in minutes since midnight, at which the session looks at
\* the clock: 09:00, 09:45 and 13:30.
Instants == {540, 585, 810}

HHMM(h, m) == getCurrentTimeStr(h * 60 + m)

Write == << "W", "r", "i", "t", "e" >>
Gym == << "G", "y", "m" >>
Read == << "R", "e", "a", "d" >>
Break == << "B", "r", "e", "a", "k" >>

\* A block as the gateway answers it: no id, no isCompleted.
Answered(startTime, endTime, label, type, taskId, domain) ==
  [startTime |-> startTime, endTime |-> endTime, label |-> label,
   type |-> type, taskId |-> taskId, energyLevel |-> "medium",
   domain |-> domain]

\* The mappings localStorage may hold at startup: nothing; or what an
\* earlier session left, today with a plan that is not in time order, and
\* the day before as its last replan left it: Write, Read and Gym had been
\* completed, and the gateway then returned Write as completed, Read as not
\* completed and no Gym; the blocks, all ended by then, were kept as they
\* were.
SavedMappings ==
  { << >>,
    [d \in Dates |->
       IF d = todayStr
       THEN [tasks |-> << Task(<< "t1" >>, Write, FALSE),
                          Task(<< "t2" >>, Gym, FALSE) >>,
             schedule |->
               << TimeBlock(<< "b2" >>, HHMM(9, 0), HHMM(10, 30), Gym, "work",
                            << "t2" >>, FALSE, "medium", "Health"),
                  TimeBlock(<< "b1" >>, HHMM(8, 0), HHMM(9, 0), Write, "work",
                            << "t1" >>, FALSE, "high", "Academic"),
                  TimeBlock(<< "b3" >>, HHMM(11, 0), HHMM(12, 0), Break,
                            "break", NullId, FALSE, "low", "Routine") >>,
             explanation |-> "Plan.",
             date |-> d,
             distractions |-> << >>]
       ELSE [tasks |-> << Task(<< "t1" >>, Write, TRUE),
                          Task(<< "t3" >>, Read, FALSE) >>,
             schedule |->
               << TimeBlock(<< "b1" >>, HHMM(8, 0), HHMM(9, 0), Write, "work",
                            << "t1" >>, TRUE, "high", "Academic"),
                  TimeBlock(<< "b4" >>, HHMM(9, 0), HHMM(10, 0), Read, "work",
                            << "t3" >>, TRUE, "medium", "Skill"),
                  TimeBlock(<< "b2" >>, HHMM(10, 0), HHMM(11, 0), Gym, "work",
                            << "t2" >>, TRUE, "medium", "Health") >>,
             explanation |-> "Replanned.",
             date |-> d,
             distractions |-> << "phone" >>]] }

\* JSON.stringify of the store: a key whose value is undefined is left out,
\* which is what an undo leaves of previousVersion.
JSONstringify(days) ==
  [d \in DOMAIN days |->
     IF PreviousVersionOf(days[d]) = Undefined
     THEN [k \in DOMAIN days[d] \ {"previousVersion"} |-> days[d][k]]
     ELSE days[d]]

\* An item of localStorage: none, or a text that JSON.parse takes or throws
\* on; `value` is what the text holds of a mapping.
NoItem == [kind |-> "none"]
TextOf(value) == [kind |-> "text", parses |-> TRUE, value |-> value]
CutText(value) == [kind |-> "text", parses |-> FALSE, value |-> value]

\* What localStorage may hold under 'focusOneData' at startup: nothing, a
\* saved mapping, or the text of one cut off after its first date.
StoredItems ==
  {NoItem} \cup {TextOf(saved) : saved \in SavedMappings}
    \cup {CutText([d \in {"2024-05-01"} |-> saved[d]]) :
            saved \in {m \in SavedMappings : "2024-05-01" \in DOMAIN m}}

\* The initializer of `days` that takes what it can read of a text that
\* does not parse.
loadDaysLenient(item) ==
  IF item.kind = "none" THEN << >> ELSE item.value

\* The initializer of `days`: saved ? JSON.parse(saved) : {}, and {} when
\* that throws.
loadDays(item) ==
  IF item.kind = "none" THEN << >>
  ELSE IF item.parses THEN item.value ELSE << >>

\* A setItem that writes only where no item is yet.
setItemOnce(item, value, storage) ==
  IF storage = "ok" /\ item.kind = "none" THEN TextOf(value) ELSE item

\* What 'focusOneData' holds after localStorage.setItem inside its try:
\* the text of `value`, or what it held when setItem throws.
setItem(item, value, storage) ==
  IF storage = "ok" THEN TextOf(value) ELSE item

\* What the user types into the planning form: the task lists setTasks is
\* called with, given the current list.
ManualTasks == << Task(<< "m1" >>, Write, FALSE) >>

EditedTasks(tasks) ==
  { Append(tasks, ManualTasks[i]) :
      i \in {j \in 1..Len(ManualTasks) :
               \A k \in 1..Len(tasks) : tasks[k].id # ManualTasks[j].id} }
  \cup { SubSeq(tasks, 1, Len(tasks) - 1) : x \in {1} \cap 1..Len(tasks) }

\* The parsed answers of the gateway to generateDailyPlan(tasks, ...): one
\* block per task in the morning slots, then a break; not in time order.
Slots == << << HHMM(9, 0), HHMM(10, 30) >>, << HHMM(8, 0), HHMM(9, 0) >> >>

GenerateAnswers(tasks) ==
  { [explanation |-> "Plan.",
     schedule |->
       [i \in 1..(IF Len(tasks) < 2 THEN Len(tasks) ELSE 2) |->
          Answered(Slots[i][1], Slots[i][2], tasks[i].title, "work",
                   tasks[i].id, "")]
       \o << Answered(HHMM(11, 0), HHMM(12, 0), Break, "break", NullId,
                      "Routine") >>] }

\* The parsed answers of the gateway to adaptiveReplan(tasks, now, ...): the
\* last task dropped and a new task without id added; the rest of the first
\* task from now on, labelled as the part it is; a fixed block that names a
\* task that does not exist; and a work block without taskId whose label
\* holds the new task's title and "(Done)".  Not in time order.
ReplanAnswers(tasks, now) ==
  { [explanation |-> "Replanned.",
     tasks |-> SubSeq(tasks, 1, Len(tasks) - 1)
                 \o << Task(NullId, Read, FALSE) >>,
     schedule |->
       [i \in 1..(IF Len(tasks) < 2 THEN 0 ELSE 1) |->
          Answered(now, HHMM(14, 0), tasks[i].title \o << " " >> \o PartialTag,
                   "work", tasks[i].id, "")]
       \o << Answered(HHMM(14, 0), HHMM(16, 0), Gym, "fixed", << "ghost" >>,
                      "Health"),
             Answered(HHMM(13, 0), HHMM(15, 0),
                      << "r", "e", "a", "d", " " >> \o DoneTag,
                      "work", NullId, "Skill") >>] }

\* The parsed answers of the gateway to generateScheduleFromChat.
ChatAnswers ==
  { [explanation |-> "From chat.",
     tasks |-> << [title |-> Write], [title |-> Gym] >>,
     schedule |->
       << [startTime |-> HHMM(9, 0), endTime |-> HHMM(10, 30),
           label |-> << "g", "y", "m" >>, type |-> "work",
           energyLevel |-> "medium", domain |-> "Health"],
          [startTime |-> HHMM(8, 0), endTime |-> HHMM(9, 0),
           label |-> Write, type |-> "work",
           energyLevel |-> "high", domain |-> ""],
          [startTime |-> HHMM(11, 0), endTime |-> HHMM(12, 0),
           label |-> Break, type |-> "break",
           energyLevel |-> "low", domain |-> "Routine"] >>] }

\* The texts typed into the distraction box of Zen mode.
DistractionTexts == {"mail"}

\* ------------------------------------------------------------------- state
VARIABLES
  days,          \* App: the day store, date -> DayData
  selectedDate,  \* App: the date being viewed
  mode,          \* App: "FOCUS" or "PLANNING"
  isGenerating,  \* App: the generating flag
  zenMode,       \* FocusView: the Zen overlay is switched on
  clock,         \* the wall clock, minutes since midnight
  stamp,         \* Date.now(), counted in gateway answers
  inflight,      \* the generate and replan calls awaiting the gateway
  assistant,     \* the assistant call awaiting its answer, with its closure
  calls,         \* gateway calls made so far
  edits,         \* toggles, distractions and messages of the user so far
  focusOneData,  \* localStorage: the item 'focusOneData'
  storage,       \* localStorage: "ok", or "full" when setItem throws
  last           \* history: the step taken last

vars == << days, selectedDate, mode, isGenerating, zenMode, clock, stamp,
           inflight, assistant, calls, edits, focusOneData, storage, last >>

\* ------------------------------------------------- what FocusView derives
\* todayScheduleSorted.find(b => start <= currentMinutes < end): the sort is
\* stable, so it is the block with the least start, the earliest in the
\* schedule among equals; undefined when there is none.
ActiveBlock(todayData, now) ==
  LET sch == todayData.schedule
      hits == {i \in 1..Len(sch) :
                 /\ now >= getMinutes(sch[i].startTime)
                 /\ now < getMinutes(sch[i].endTime)}
      first == CHOOSE i \in hits : \A j \in hits :
                 \/ getMinutes(sch[i].startTime) < getMinutes(sch[j].startTime)
                 \/ /\ getMinutes(sch[i].startTime) = getMinutes(sch[j].startTime)
                    /\ i <= j
  IN  IF hits = {} THEN Undefined ELSE Some(sch[first])

HasPlan(todayData) == Len(todayData.tasks) > 0

\* nextBlock is looked for only without an active block and with a plan.
HasNextBlock(todayData, now) ==
  \E i \in 1..Len(todayData.schedule) :
     getMinutes(todayData.schedule[i].startTime) > now

IncompleteTasks(todayData) ==
  {i \in 1..Len(todayData.tasks) : ~todayData.tasks[i].completed}

TodayData == getDayData(days, todayStr)
SelectedData == getDayData(days, selectedDate)
IsViewingToday == selectedDate = TodayData.date
Active == ActiveBlock(TodayData, clock)

\* The Zen overlay replaces the whole view.
Overlay == zenMode /\ Active # Undefined
Dashboard == mode = "FOCUS" /\ ~Overlay

\* ----------------------------------------------------------------- history
\* op: the step taken last; date: the date its handler worked on; req: the
\* request a resumed handler had saved before its await; fresh: how many
\* blocks the gateway's answer brought; after: for an undo, what it followed.
Ran(op, date, req, fresh, after) ==
  [op |-> op, date |-> date, req |-> req, fresh |-> fresh, after |-> after]

Handled(op, date) == Ran(op, date, Undefined, 0, "")
Viewed(op) == Handled(op, "")

\* A toggle takes back the step before it when that step was a toggle of
\* the same task of the same date that took nothing back itself.
TakesBack(date, taskId) ==
  /\ last.op = "handleToggleTask" /\ last.after = ""
  /\ last.date = date
  /\ last.req[1].taskId = taskId

ReplanWrites == {"replanned", "replanFailed"}
GenerateWrites == {"generated", "generateFailed"}

\* -------------------------------------------------------------------- init
\* The state after the first renders and their effects, of a program that
\* found `item` in a localStorage that behaves as `st`.
InitFrom(item, st) ==
  /\ LET saved == loadDays(item)
     IN  \* the effect that makes today's record follows the first render
         days = IF todayStr \in DOMAIN saved THEN saved
                ELSE [d \in DOMAIN saved \cup {todayStr} |->
                        IF d = todayStr THEN EmptyDay(todayStr) ELSE saved[d]]
  /\ storage = st
  /\ focusOneData = setItem(item, JSONstringify(days), st)
  /\ last = Ran("init", "", Some([kind |-> "load", item |-> item]), 0, "")
  /\ selectedDate = todayStr
  /\ mode = "FOCUS"
  /\ isGenerating = FALSE
  /\ zenMode = FALSE
  /\ clock = 540
  /\ stamp = 1
  /\ inflight = << >>
  /\ assistant = Undefined
  /\ calls = 0
  /\ edits = 0

Init == \E item \in StoredItems : InitFrom(item, "ok")

\* The same program where nothing is stored, in a localStorage that takes
\* every write or refuses every write.
InitStorage == \E st \in {"ok", "full"} : InitFrom(NoItem, st)

\* ---------------------------------------------------------------- handlers
\* The guard at the head of handleReplan.
ReplanAllowed(selected) == selected = todayStr

\* handleReplan up to its await, in the render with store cdays and selected
\* date cselected.
handleReplan(cdays, cselected) ==
  IF ~ReplanAllowed(cselected)
  THEN UNCHANGED << days, isGenerating, inflight, calls >>
  ELSE /\ calls < MaxCalls
       /\ isGenerating' = TRUE
       /\ inflight' = Append(inflight,
            [kind |-> "replan", date |-> todayStr,
             currentData |-> getDayData(cdays, todayStr),
             currentTime |-> getCurrentTimeStr(clock)])
       /\ calls' = calls + 1
       /\ UNCHANGED days

\* handleToggleTask in the render with store cdays and selected date
\* cselected.  The history keeps what it read: the record, the clock, and,
\* of a toggle that takes one back, the record that one had read.
handleToggleTask(cdays, cselected, taskId) ==
  /\ days' = updateDayData(days, cdays, cselected,
               ToggleUpdates(getDayData(cdays, cselected), taskId,
                             cselected = todayStr, getCurrentTimeStr(clock)))
  /\ last' = Ran("handleToggleTask", cselected,
                 Some([kind |-> "toggle", date |-> cselected,
                       currentData |-> getDayData(cdays, cselected),
                       currentTime |-> getCurrentTimeStr(clock),
                       taskId |-> taskId,
                       first |-> IF TakesBack(cselected, taskId)
                                 THEN Some(last.req[1].currentData)
                                 ELSE Undefined]),
                 0, IF TakesBack(cselected, taskId) THEN "toggle" ELSE "")

\* handleUndo
handleUndo(cdays, cselected) ==
  LET currentData == getDayData(cdays, cselected)
  IN  IF PreviousVersionOf(currentData) # Undefined
      THEN days' = updateDayData(days, cdays, cselected,
                     UndoUpdates(PreviousVersionOf(currentData)[1]))
      ELSE days' = days

\* The store a handler's closure holds after an await: the one record its
\* getDayData can still be asked for.
ClosureOf(req) == req.date :> req.currentData

Without(seq, i) == SubSeq(seq, 1, i - 1) \o SubSeq(seq, i + 1, Len(seq))

\* ----------------------------------------------------------------- actions
Tick ==
  /\ \E t \in Instants :
       /\ t > clock
       /\ \A u \in Instants : u > clock => t <= u
       /\ clock' = t
  /\ last' = Viewed("view")
  /\ UNCHANGED << days, selectedDate, mode, isGenerating, zenMode, stamp,
                  inflight, assistant, calls, edits >>

\* CalendarStrip: onSelectDate
SelectDate(d) ==
  /\ Dashboard
  /\ d # selectedDate
  /\ selectedDate' = d
  /\ last' = Viewed("view")
  /\ UNCHANGED << days, mode, isGenerating, zenMode, clock, stamp, inflight,
                  assistant, calls, edits >>

\* "Start My Day" / "Create one?": onPlan
OpenPlanning ==
  /\ Dashboard
  /\ IsViewingToday /\ ~HasPlan(TodayData) /\ Active = Undefined
  /\ mode' = "PLANNING"
  /\ zenMode' = FALSE
  /\ last' = Viewed("view")
  /\ UNCHANGED << days, selectedDate, isGenerating, clock, stamp, inflight,
                  assistant, calls, edits >>

\* PlanningView: setTasks
SetTasks(newTasks) ==
  /\ mode = "PLANNING"
  /\ days' = updateDayData(days, days, selectedDate, [tasks |-> newTasks])
  /\ last' = Handled("setTasks", selectedDate)
  /\ UNCHANGED << selectedDate, mode, isGenerating, zenMode, clock, stamp,
                  inflight, assistant, calls, edits >>

\* PlanningView offers onGeneratePlan unless a generation is under way.
CanGenerate == ~isGenerating

\* handleGeneratePlan up to its await
GeneratePlanRequest ==
  /\ mode = "PLANNING"
  /\ CanGenerate
  /\ calls < MaxCalls
  /\ isGenerating' = TRUE
  /\ inflight' = Append(inflight,
       [kind |-> "generate", date |-> selectedDate,
        currentData |-> SelectedData, currentTime |-> << >>])
  /\ calls' = calls + 1
  /\ last' = Handled("handleGeneratePlan", selectedDate)
  /\ UNCHANGED << days, selectedDate, mode, zenMode, clock, stamp, assistant,
                  edits >>

\* A resumption that looks up the selected date when the gateway answers
\* instead of keeping the one of its request.
GeneratePlanResumeOnSelected(i, op, result) ==
  LET req == inflight[i]
  IN  /\ days' = updateDayData(days, days, selectedDate,
                   [schedule |-> result.schedule,
                    explanation |-> result.explanation])
      /\ mode' = "FOCUS"
      /\ isGenerating' = FALSE
      /\ inflight' = Without(inflight, i)
      /\ last' = Ran(op, req.date, Some(req), Len(result.schedule), "")
      /\ UNCHANGED << selectedDate, zenMode, clock, assistant, calls, edits >>

\* handleGeneratePlan after its await, generateDailyPlan having returned
\* `result`.
GeneratePlanResume(i, op, result) ==
  LET req == inflight[i]
  IN  /\ days' = updateDayData(days, ClosureOf(req), req.date,
                   [schedule |-> result.schedule,
                    explanation |-> result.explanation])
      /\ mode' = "FOCUS"
      /\ isGenerating' = FALSE
      /\ inflight' = Without(inflight, i)
      /\ last' = Ran(op, req.date, Some(req), Len(result.schedule), "")
      /\ UNCHANGED << selectedDate, zenMode, clock, assistant, calls, edits >>

GeneratePlanAnswered(i, data) ==
  /\ inflight[i].kind = "generate"
  /\ GeneratePlanResume(i, "generated", generateDailyPlan(data, stamp))
  /\ stamp' = stamp + 1

GeneratePlanFailed(i) ==
  /\ inflight[i].kind = "generate"
  /\ GeneratePlanResume(i, "generateFailed", generateDailyPlanFailed)
  /\ stamp' = stamp

\* handleApplyChatPlan, with the plan the chat gateway made
ApplyChatPlan(data) ==
  LET plan == generateScheduleFromChat(data, stamp)
  IN  /\ mode = "PLANNING"
      /\ calls < MaxCalls
      /\ days' = updateDayData(days, days, selectedDate,
                   [tasks |-> plan.tasks, schedule |-> plan.schedule,
                    explanation |-> plan.explanation])
      /\ mode' = "FOCUS"
      /\ stamp' = stamp + 1
      /\ calls' = calls + 1
      /\ last' = Handled("handleApplyChatPlan", selectedDate)
      /\ UNCHANGED << selectedDate, isGenerating, zenMode, clock, inflight,
                      assistant, edits >>

\* What a trigger of handleReplan leaves alone, and the history it writes.
ReplanTriggered(cselected) ==
  /\ last' = Handled("handleReplan", cselected)
  /\ UNCHANGED << selectedDate, mode, clock, stamp, edits >>

\* The header's Reschedule button, disabled while generating
Reschedule ==
  /\ Dashboard
  /\ ~isGenerating
  /\ handleReplan(days, selectedDate)
  /\ ReplanTriggered(selectedDate)
  /\ UNCHANGED << zenMode, assistant >>

\* The active card's reschedule button
RescheduleActive ==
  /\ Dashboard
  /\ Active # Undefined
  /\ handleReplan(days, selectedDate)
  /\ ReplanTriggered(selectedDate)
  /\ UNCHANGED << zenMode, assistant >>

\* "Reschedule Remaining", shown when the schedule is over and tasks remain
RescheduleRemaining ==
  /\ Dashboard
  /\ Active = Undefined /\ HasPlan(TodayData)
  /\ ~HasNextBlock(TodayData, clock) /\ IncompleteTasks(TodayData) # {}
  /\ handleReplan(days, selectedDate)
  /\ ReplanTriggered(selectedDate)
  /\ UNCHANGED << zenMode, assistant >>

\* Zen mode's onReschedule
ZenReschedule ==
  /\ mode = "FOCUS" /\ Overlay
  /\ handleReplan(days, selectedDate)
  /\ ReplanTriggered(selectedDate)
  /\ zenMode' = FALSE
  /\ UNCHANGED assistant

\* The boundary time re-read when the gateway answers, which handleReplan
\* does not do.
currentTimeResampled(req, clockMinutes) == getCurrentTimeStr(clockMinutes)

\* currentTime of handleReplan where the past blocks are told apart: the
\* constant set before the await, whatever the clock shows by then.
currentTimeOf(req, clockMinutes) == req.currentTime

\* handleReplan after its await, adaptiveReplan having returned `result`.
ReplanResume(i, op, result) ==
  LET req == inflight[i]
      previousVersion == SnapshotOf(req.currentData)
      pastBlocks == PastBlocks(req.currentData.schedule,
                               currentTimeOf(req, clock))
  IN  /\ days' = updateDayData(days, ClosureOf(req), req.date,
                   ReplanUpdates(pastBlocks, result, previousVersion))
      /\ isGenerating' = FALSE
      /\ inflight' = Without(inflight, i)
      /\ last' = Ran(op, req.date, Some(req), Len(result.schedule), "")
      /\ UNCHANGED << selectedDate, mode, zenMode, clock, assistant, calls,
                      edits >>

ReplanAnswered(i, data) ==
  /\ inflight[i].kind = "replan"
  /\ ReplanResume(i, "replanned", adaptiveReplan(data, stamp))
  /\ stamp' = stamp + 1

ReplanFailed(i) ==
  /\ inflight[i].kind = "replan"
  /\ ReplanResume(i, "replanFailed",
                  adaptiveReplanFailed(inflight[i].currentData.tasks))
  /\ stamp' = stamp

\* canUndo, as App hands it to FocusView
canUndo == PreviousVersionOf(SelectedData) # Undefined

\* The Undo button, shown while canUndo, and handleUndo, which looks again: a
\* second click in a row finds nothing to undo.  The history keeps what the
\* undo came after: a replan's write to the same date, or an undo that came
\* after one.
Undo ==
  LET after == IF last.op \in ReplanWrites /\ last.date = selectedDate
               THEN "replan"
               ELSE IF last.op = "handleUndo" /\ last.after = "replan"
                       /\ last.date = selectedDate
                    THEN "replan, undo"
                    ELSE ""
  IN  /\ Dashboard
      /\ canUndo \/ last.op = "handleUndo"
      /\ handleUndo(days, selectedDate)
      /\ last' = IF after = "" THEN Handled("handleUndo", selectedDate)
                 ELSE Ran("handleUndo", selectedDate, last.req, last.fresh,
                          after)
      /\ UNCHANGED << selectedDate, mode, isGenerating, zenMode, clock, stamp,
                      inflight, assistant, calls, edits >>

\* What a trigger of handleToggleTask leaves alone.  Taking back the toggle
\* just made is open to the user whatever was done before.
ToggleTriggered(taskId) ==
  /\ edits < MaxEdits \/ TakesBack(selectedDate, taskId)
  /\ edits' = IF edits < MaxEdits THEN edits + 1 ELSE edits
  /\ UNCHANGED << selectedDate, mode, isGenerating, clock, stamp, inflight,
                  assistant, calls >>

\* The active card's Complete button: today's active block, the selected date
ToggleActive ==
  /\ Dashboard
  /\ Active # Undefined
  /\ Active[1].taskId # NullId
  /\ handleToggleTask(days, selectedDate, Active[1].taskId)
  /\ ToggleTriggered(Active[1].taskId)
  /\ UNCHANGED zenMode

\* The boxes of the "Tasks Remaining" card: the first three incomplete tasks
TogglePending(i) ==
  /\ Dashboard
  /\ Active = Undefined /\ HasPlan(TodayData)
  /\ ~HasNextBlock(TodayData, clock)
  /\ i \in IncompleteTasks(TodayData)
  /\ Cardinality({j \in IncompleteTasks(TodayData) : j < i}) < 3
  /\ handleToggleTask(days, selectedDate, TodayData.tasks[i].id)
  /\ ToggleTriggered(TodayData.tasks[i].id)
  /\ UNCHANGED zenMode

\* The boxes of the selected date's plan
ToggleListed(i) ==
  /\ Dashboard
  /\ i \in 1..Len(SelectedData.schedule)
  /\ SelectedData.schedule[i].taskId # NullId
  /\ handleToggleTask(days, selectedDate, SelectedData.schedule[i].taskId)
  /\ ToggleTriggered(SelectedData.schedule[i].taskId)
  /\ UNCHANGED zenMode

\* The Zen button of the active card
EnterZen ==
  /\ Dashboard
  /\ Active # Undefined
  /\ Active[1].type = "work"
  /\ zenMode' = TRUE
  /\ last' = Viewed("view")
  /\ UNCHANGED << days, selectedDate, mode, isGenerating, clock, stamp,
                  inflight, assistant, calls, edits >>

\* Zen mode's onExit
ExitZen ==
  /\ mode = "FOCUS" /\ Overlay
  /\ zenMode' = FALSE
  /\ last' = Viewed("view")
  /\ UNCHANGED << days, selectedDate, mode, isGenerating, clock, stamp,
                  inflight, assistant, calls, edits >>

\* Zen mode's onComplete
ZenComplete ==
  /\ mode = "FOCUS" /\ Overlay
  /\ IF IsViewingToday /\ Active[1].taskId # NullId
     THEN /\ edits < MaxEdits
          /\ handleToggleTask(days, selectedDate, Active[1].taskId)
          /\ edits' = edits + 1
     ELSE /\ days' = days
          /\ edits' = edits
          /\ last' = Viewed("view")
  /\ zenMode' = FALSE
  /\ UNCHANGED << selectedDate, mode, isGenerating, clock, stamp, inflight,
                  assistant, calls >>

\* Zen mode's distraction box: handleAddDistraction, handleUpdateDistractions
AddDistraction(text) ==
  /\ mode = "FOCUS" /\ Overlay
  /\ edits < MaxEdits
  /\ days' = updateDayData(days, days, selectedDate,
               [distractions |-> Append(TodayData.distractions, text)])
  /\ edits' = edits + 1
  /\ last' = Handled("handleUpdateDistractions", selectedDate)
  /\ UNCHANGED << selectedDate, mode, isGenerating, zenMode, clock, stamp,
                  inflight, assistant, calls >>

\* FloatingAssistant: handleSend up to its await.  The onAction it will call
\* is the one of this render: it keeps this render's store and selected date.
\* Its handlers refuse unless that date is today, so of the store they read
\* today's record only.
AssistantSend ==
  /\ Dashboard
  /\ assistant = Undefined
  /\ edits < MaxEdits
  /\ assistant' = Some([days |-> todayStr :> TodayData,
                        selectedDate |-> selectedDate])
  /\ edits' = edits + 1
  /\ last' = Viewed("view")
  /\ UNCHANGED << days, selectedDate, mode, isGenerating, zenMode, clock,
                  stamp, inflight, calls >>

\* handleSend after its await: intent NONE, or the call failed
AssistantNone ==
  /\ assistant # Undefined
  /\ assistant' = Undefined
  /\ last' = Viewed("view")
  /\ UNCHANGED << days, selectedDate, mode, isGenerating, zenMode, clock,
                  stamp, inflight, calls, edits >>

\* handleSend after its await: intent REPLAN; handleAssistantAction
AssistantReplan ==
  /\ assistant # Undefined
  /\ handleReplan(assistant[1].days, assistant[1].selectedDate)
  /\ ReplanTriggered(assistant[1].selectedDate)
  /\ assistant' = Undefined
  /\ UNCHANGED zenMode

\* handleSend after its await: intent MARK_COMPLETE with a task id of the
\* tasks it was shown; handleAssistantAction
AssistantMarkComplete(taskId) ==
  /\ assistant # Undefined
  /\ IF assistant[1].selectedDate = todayStr
     THEN handleToggleTask(assistant[1].days, assistant[1].selectedDate,
                           taskId)
     ELSE /\ days' = days
          /\ last' = Viewed("view")
  /\ assistant' = Undefined
  /\ UNCHANGED << selectedDate, mode, isGenerating, zenMode, clock, stamp,
                  inflight, calls, edits >>

TaskIdsOf(rec) == {rec.tasks[i].id : i \in 1..Len(rec.tasks)}

\* The task ids in the context the assistant was sent: today's tasks.
AssistantTaskIds ==
  IF assistant = Undefined THEN {}
  ELSE TaskIdsOf(getDayData(assistant[1].days, todayStr))

\* -------------------------------------------------------------------- next
\* The effect on [days] that follows the render of every step.
SaveEffect ==
  /\ focusOneData' = setItem(focusOneData, JSONstringify(days'), storage)
  /\ storage' = storage

\* Every step is a handler, the render that follows it, and the effect.
Next ==
  \/ Tick /\ SaveEffect
  \/ \E d \in Dates : SelectDate(d) /\ SaveEffect
  \/ OpenPlanning /\ SaveEffect
  \/ \E newTasks \in EditedTasks(SelectedData.tasks) : SetTasks(newTasks) /\ SaveEffect
  \/ GeneratePlanRequest /\ SaveEffect
  \/ \E i \in 1..Len(inflight) :
       \E data \in GenerateAnswers(inflight[i].currentData.tasks) :
         GeneratePlanAnswered(i, data) /\ SaveEffect
  \/ \E i \in 1..Len(inflight) : GeneratePlanFailed(i) /\ SaveEffect
  \/ \E data \in ChatAnswers : ApplyChatPlan(data) /\ SaveEffect
  \/ Reschedule /\ SaveEffect
  \/ RescheduleActive /\ SaveEffect
  \/ RescheduleRemaining /\ SaveEffect
  \/ ZenReschedule /\ SaveEffect
  \/ \E i \in 1..Len(inflight) :
       \E data \in ReplanAnswers(inflight[i].currentData.tasks,
                                 inflight[i].currentTime) :
         ReplanAnswered(i, data) /\ SaveEffect
  \/ \E i \in 1..Len(inflight) : ReplanFailed(i) /\ SaveEffect
  \/ Undo /\ SaveEffect
  \/ ToggleActive /\ SaveEffect
  \/ \E i \in 1..Len(TodayData.tasks) : TogglePending(i) /\ SaveEffect
  \/ \E i \in 1..Len(SelectedData.schedule) : ToggleListed(i) /\ SaveEffect
  \/ EnterZen /\ SaveEffect
  \/ ExitZen /\ SaveEffect
  \/ ZenComplete /\ SaveEffect
  \/ \E text \in DistractionTexts : AddDistraction(text) /\ SaveEffect
  \/ AssistantSend /\ SaveEffect
  \/ AssistantNone /\ SaveEffect
  \/ AssistantReplan /\ SaveEffect
  \/ \E taskId \in AssistantTaskIds : AssistantMarkComplete(taskId) /\ SaveEffect

\* The comparisons of times on their own: a program with nothing stored,
\* its clock at any minute of the day and running through the day.
MinutesOfDay == 0..(24 * 60 - 1)

InitTimes ==
  /\ days = todayStr :> EmptyDay(todayStr)
  /\ storage = "ok"
  /\ focusOneData = TextOf(JSONstringify(days))
  /\ last = Viewed("init")
  /\ selectedDate = todayStr
  /\ mode = "FOCUS"
  /\ isGenerating = FALSE
  /\ zenMode = FALSE
  /\ clock \in MinutesOfDay
  /\ stamp = 1
  /\ inflight = << >>
  /\ assistant = Undefined
  /\ calls = 0
  /\ edits = 0

\* FocusView's timer: the next minute.
Minute ==
  /\ clock' = (clock + 1) % (24 * 60)
  /\ UNCHANGED << days, selectedDate, mode, isGenerating, zenMode, stamp,
                  inflight, assistant, calls, edits, focusOneData, storage,
                  last >>

SpecTimes == InitTimes /\ [][Minute]_vars

Spec == Init /\ [][Next]_vars
SpecStorage == InitStorage /\ [][Next]_vars

\* ------------------------------------------------------------------ claims
\* rec[f], undefined when the key is missing.
Field(rec, f) == IF f \in DOMAIN rec THEN rec[f] ELSE Undefined

Fields ==
  {"tasks", "schedule", "explanation", "date", "distractions",
   "previousVersion"}

\* The fields named in the update of each handler.
NamedBy(op) ==
  CASE op = "setTasks" -> {"tasks"}
    [] op \in GenerateWrites -> {"schedule", "explanation"}
    [] op = "handleApplyChatPlan" -> {"tasks", "schedule", "explanation"}
    [] op \in ReplanWrites \cup {"handleUndo"} ->
         {"tasks", "schedule", "explanation", "previousVersion"}
    [] op = "handleToggleTask" -> {"tasks", "schedule"}
    [] op = "handleUpdateDistractions" -> {"distractions"}
    [] OTHER -> {}

\* After the write of a generate, a replan or a toggle: the request it had
\* made, and the record it had read then.
Req == last.req[1]
Before == Req.currentData
Written == days[last.date]

\* C1: every partial update of a date's record, the one applied when a
\* generate or a replan returns included, leaves each field it does not name
\* equal to the value the store held immediately before the update.
C1_UnnamedFieldsKept ==
  [][\A f \in Fields \ NamedBy(last'.op) :
       Field(getDayData(days', last'.date), f)
         = Field(getDayData(days, last'.date), f)]_vars

\* C2: in every reachable state at most one generate or replan call is
\* outstanding.
C2_AtMostOneInFlight == Len(inflight) <= 1

\* C3: after a replan whose gateway call failed, today's record equals the
\* record from before the replan was requested in tasks, schedule,
\* distractions and previousVersion.
C3_FailedReplanKeepsRecord ==
  last.op = "replanFailed" =>
    \A f \in {"tasks", "schedule", "distractions", "previousVersion"} :
       Field(Written, f) = Field(Before, f)

C5_FailedReplanWrites ==
  last.op = "replanFailed" =>
    /\ Written.tasks = Before.tasks
    /\ last.fresh = 0
    /\ Written.schedule = PastBlocks(Before.schedule, Req.currentTime)
    /\ \A i \in 1..Len(Written.schedule) :
         StrLessEq(Written.schedule[i].endTime, Req.currentTime)
    /\ PreviousVersionOf(Written)
         = Some([tasks |-> Before.tasks, schedule |-> Before.schedule,
                 explanation |-> Before.explanation])

\* A failed replan of a schedule with a block in progress and a block to come.
C5_Witness ==
  /\ last.op = "replanFailed"
  /\ Len(Before.tasks) > 0
  /\ \E i \in 1..Len(Before.schedule) :
       /\ StrLess(Before.schedule[i].startTime, Req.currentTime)
       /\ StrLess(Req.currentTime, Before.schedule[i].endTime)
  /\ \E i \in 1..Len(Before.schedule) :
       StrLess(Req.currentTime, Before.schedule[i].startTime)
  /\ Len(Written.schedule) > 0

\* C6: an undo that follows a replan on the same date leaves tasks, schedule
\* and explanation at their values from before the replan and previousVersion
\* absent; a second undo then changes nothing in the store.
C6_UndoRestores ==
  [][/\ (last'.op = "handleUndo" /\ last'.after = "replan") =>
          /\ days'[last'.date].tasks = last'.req[1].currentData.tasks
          /\ days'[last'.date].schedule = last'.req[1].currentData.schedule
          /\ days'[last'.date].explanation
               = last'.req[1].currentData.explanation
          /\ PreviousVersionOf(days'[last'.date]) = Undefined
     /\ (last'.op = "handleUndo" /\ last'.after = "replan, undo") =>
          days' = days]_vars

\* A replan that brought blocks and changed the tasks, undone, and undone
\* again.
C6_Witness ==
  /\ last.op = "handleUndo"
  /\ last.after = "replan, undo"
  /\ last.fresh > 0
  /\ Len(Before.schedule) > 0
  /\ Written.tasks = Before.tasks
  /\ PreviousVersionOf(Written) = Undefined

\* C7: the previousVersion a replan writes is the {tasks, schedule,
\* explanation} the stored record held immediately before that write, and it
\* holds no previousVersion itself.
C7_SnapshotOfStoredRecord ==
  [][last'.op \in ReplanWrites =>
       /\ PreviousVersionOf(days'[todayStr])
            = Some([tasks |-> TodayData.tasks,
                    schedule |-> TodayData.schedule,
                    explanation |-> TodayData.explanation])
       /\ "previousVersion"
            \notin DOMAIN PreviousVersionOf(days'[todayStr])[1]]_vars

\* C8: a call of handleReplan while the selected date is not today issues no
\* gateway call, does not set the generating flag and leaves the store as it
\* is.
C8_ReplanOffTodayRejected ==
  [][(last'.op = "handleReplan" /\ selectedDate # todayStr) =>
       UNCHANGED << days, isGenerating, inflight, calls >>]_vars

\* The blocks of the schedule a replan had read, by the rule that holds of
\* them at the boundary time.
Old == Before.schedule
Ended(i) == StrLessEq(Old[i].endTime, Req.currentTime)
Straddling(i) ==
  /\ StrLess(Old[i].startTime, Req.currentTime)
  /\ StrLess(Req.currentTime, Old[i].endTime)
Coming(i) == StrLessEq(Req.currentTime, Old[i].startTime)

\* The place in the written schedule of the i-th old block, if it is past.
PlaceOf(i) == Cardinality({j \in 1..i : Ended(j) \/ Straddling(j)})
PastCount == PlaceOf(Len(Old))

\* C9: the replan treats every block of the schedule by exactly one of three
\* rules: one that has ended by now is kept as it is; one that straddles now
\* is replaced by a copy that ends now, with a derived id, the same startTime,
\* taskId, isCompleted and domain, and the label with " (Partial)" added
\* unless it holds "(Partial)" already; one that starts at now or later is
\* absent from the past blocks.
C9_Partition ==
  last.op \in ReplanWrites =>
    /\ Len(Written.schedule) = PastCount + last.fresh
    /\ \A i \in 1..Len(Old) :
         /\ Cardinality({r \in {"ended", "straddling", "coming"} :
                           \/ r = "ended" /\ Ended(i)
                           \/ r = "straddling" /\ Straddling(i)
                           \/ r = "coming" /\ Coming(i)}) = 1
         /\ Ended(i) => Written.schedule[PlaceOf(i)] = Old[i]
         /\ Straddling(i) =>
              LET cut == Written.schedule[PlaceOf(i)]
              IN  /\ cut.endTime = Req.currentTime
                  /\ cut.id # Old[i].id
                  /\ cut.id = Old[i].id \o << "-truncated" >>
                  /\ cut.startTime = Old[i].startTime
                  /\ cut.taskId = Old[i].taskId
                  /\ cut.isCompleted = Old[i].isCompleted
                  /\ cut.domain = Old[i].domain
                  /\ cut.label = IF Includes(Old[i].label, PartialTag)
                                 THEN Old[i].label
                                 ELSE Old[i].label \o << " " >> \o PartialTag
         /\ Coming(i) =>
              \A k \in 1..PastCount : Written.schedule[k].id # Old[i].id

\* A replan of a schedule with a block that ended exactly now or before, a
\* block to come, and two straddling blocks, one of them with
\* "(Partial)" in its label already.
C9_Witness ==
  /\ last.op = "replanned"
  /\ \E i \in 1..Len(Old) : Ended(i)
  /\ \E i \in 1..Len(Old) : Coming(i)
  /\ \E i \in 1..Len(Old) :
       Straddling(i) /\ Includes(Old[i].label, PartialTag)
  /\ \E i \in 1..Len(Old) :
       Straddling(i) /\ ~Includes(Old[i].label, PartialTag)

\* C10: the schedule a replan writes is the past blocks, in the order they
\* had in the schedule before, and then the blocks of the gateway, in the
\* order it gave them: every past block comes before every regenerated one.
C10_PastThenFresh ==
  last.op \in ReplanWrites =>
    /\ Len(Written.schedule) = PastCount + last.fresh
    /\ \A i \in 1..Len(Old) :
         (Ended(i) \/ Straddling(i)) =>
            /\ Written.schedule[PlaceOf(i)].startTime = Old[i].startTime
            /\ Written.schedule[PlaceOf(i)].id
                 \in {Old[i].id, Old[i].id \o << "-truncated" >>}
    /\ last.op = "replanned" =>
         \E data \in ReplanAnswers(Before.tasks, Req.currentTime) :
            /\ last.fresh = Len(data.schedule)
            /\ \A k \in 1..last.fresh :
                 LET b == Written.schedule[PastCount + k]
                 IN  /\ b.startTime = data.schedule[k].startTime
                     /\ b.endTime = data.schedule[k].endTime
                     /\ b.label = data.schedule[k].label
                     /\ b.id[1] = "replan-block-"
                     /\ b.id[4] = ToString(k - 1)

\* A replan that wrote two past blocks the later of which starts first, and
\* regenerated blocks the later of which starts first.
C10_Witness ==
  /\ last.op = "replanned"
  /\ PastCount >= 2
  /\ last.fresh >= 2
  /\ \E k \in 1..(PastCount - 1) :
       StrLess(Written.schedule[k + 1].startTime, Written.schedule[k].startTime)
  /\ \E k \in (PastCount + 1)..(Len(Written.schedule) - 1) :
       StrLess(Written.schedule[k + 1].startTime, Written.schedule[k].startTime)

\* C11: within one replan the boundary time is read once, when the replan is
\* requested: the request keeps the clock's reading of that moment, and when
\* the gateway answers, that same value has told the blocks apart, is the
\* endTime of every truncated block and is the start of the window the
\* gateway was asked to fill, whatever the clock shows by then.
C11_AtWrite ==
  last.op \in ReplanWrites =>
    /\ Len(Written.schedule) = PastCount + last.fresh
    /\ \A i \in 1..Len(Old) :
         /\ Ended(i) => Written.schedule[PlaceOf(i)].id = Old[i].id
         /\ Straddling(i) =>
              /\ Written.schedule[PlaceOf(i)].id
                   = Old[i].id \o << "-truncated" >>
              /\ Written.schedule[PlaceOf(i)].endTime = Req.currentTime
    /\ (last.op = "replanned" /\ Len(Before.tasks) >= 2) =>
         Written.schedule[PastCount + 1].startTime = Req.currentTime

C11_BoundarySampledOnce ==
  [][/\ \A k \in 1..Len(inflight') :
          (k > Len(inflight) /\ inflight'[k].kind = "replan") =>
             inflight'[k].currentTime = getCurrentTimeStr(clock)
     /\ C11_AtWrite']_vars

\* A replan answered after the clock had moved on, of a schedule with a
\* block that straddled the boundary time and a block in between the two
\* readings of the clock.
C11_Witness ==
  /\ last.op = "replanned"
  /\ Req.currentTime # getCurrentTimeStr(clock)
  /\ Len(Before.tasks) >= 2
  /\ \E i \in 1..Len(Old) : Straddling(i)
  /\ \E i \in 1..Len(Old) :
       Coming(i) /\ StrLess(Old[i].startTime, getCurrentTimeStr(clock))

\* C12: after a replan that succeeded, the taskId of every regenerated block
\* is null or the id of a task of the returned list; an id the gateway gave
\* that matches no returned task, on a block that finds no task by title,
\* becomes null.
C12_FreshBlocksLinked ==
  last.op = "replanned" =>
    \A k \in (PastCount + 1)..Len(Written.schedule) :
       \/ Written.schedule[k].taskId = NullId
       \/ Written.schedule[k].taskId \in TaskIdsOf(Written)

\* The toggle made last, by what it had read: the task it was asked to
\* toggle, whether that task is in the list, whether it was not completed,
\* and the blocks linked to it.
Toggled == last.op = "handleToggleTask"
OnToday == last.date = todayStr
Known == Req.taskId \in TaskIdsOf(Before)
Completing ==
  \E k \in 1..Len(Before.tasks) :
     Before.tasks[k].id = Req.taskId /\ ~Before.tasks[k].completed
Linked(i) == Old[i].taskId = Req.taskId
InProgress(i) == Linked(i) /\ Straddling(i)

\* The place in the written schedule of the i-th block the toggle had read.
SplitPlace(i) == i + Cardinality({j \in 1..(i - 1) : InProgress(j)})

\* C13: completing a task today while the clock is strictly inside a block
\* linked to it puts two adjacent blocks in that block's place: the block
\* itself, with its id and startTime, ending now, completed, its label
\* followed by " (Done)"; then an "Efficiency Bonus" break from now to the
\* old endTime, with no task, not completed.  The schedule grows by one for
\* each such block.
C13_SplitInTwo ==
  (Toggled /\ OnToday /\ Completing) =>
    /\ Len(Written.schedule)
         = Len(Old) + Cardinality({i \in 1..Len(Old) : InProgress(i)})
    /\ \A i \in 1..Len(Old) :
         InProgress(i) =>
           LET done == Written.schedule[SplitPlace(i)]
               bonus == Written.schedule[SplitPlace(i) + 1]
           IN  /\ done.id = Old[i].id
               /\ done.startTime = Old[i].startTime
               /\ done.endTime = Req.currentTime
               /\ done.isCompleted
               /\ done.taskId = Old[i].taskId
               /\ done.label = Old[i].label \o << " ", "(", "D", "o", "n", "e", ")" >>
               /\ bonus.label = << "E", "f", "f", "i", "c", "i", "e", "n", "c", "y", " ", "B", "o", "n", "u", "s" >>
               /\ bonus.type = "break"
               /\ bonus.startTime = Req.currentTime
               /\ bonus.endTime = Old[i].endTime
               /\ bonus.taskId = NullId
               /\ ~bonus.isCompleted

\* A task completed today with the clock strictly inside a block linked to
\* it that is not the last block of the schedule.
C13_Witness ==
  /\ Toggled /\ OnToday /\ Completing
  /\ \E i \in 1..(Len(Old) - 1) : InProgress(i)

\* How many times `sub` occurs in `s`.
Occurrences(s, sub) ==
  Cardinality({k \in 0..(Len(s) - Len(sub)) :
                 SubSeq(s, k + 1, k + Len(sub)) = sub})

\* C14: the split adds " (Done)" to the label only when the label does not
\* hold "(Done)" already: a label that held it once holds it once after the
\* split.
C14_DoneAddedOnce ==
  (Toggled /\ OnToday /\ Completing) =>
    \A i \in 1..Len(Old) :
       InProgress(i) =>
         /\ Written.schedule[SplitPlace(i)].label
              = IF Includes(Old[i].label, DoneTag) THEN Old[i].label
                ELSE Old[i].label \o << " " >> \o DoneTag
         /\ Occurrences(Old[i].label, DoneTag) <= 1 =>
              Occurrences(Written.schedule[SplitPlace(i)].label, DoneTag) <= 1

\* C15: completing a task today while the clock is not strictly inside a
\* block linked to it (before it, after it, or exactly at its start or end)
\* only sets that block's isCompleted: its id, times and label stay, no
\* buffer block follows it, and with no linked block in progress the
\* schedule keeps its length.
C15_MarkedOnly ==
  (Toggled /\ OnToday /\ Completing) =>
    /\ (\A i \in 1..Len(Old) : ~InProgress(i)) =>
         Len(Written.schedule) = Len(Old)
    /\ \A i \in 1..Len(Old) :
         (Linked(i) /\ ~Straddling(i)) =>
           /\ Written.schedule[SplitPlace(i)]
                = [Old[i] EXCEPT !.isCompleted = TRUE]
           /\ Cardinality({k \in 1..Len(Written.schedule) :
                Written.schedule[k].id = Old[i].id \o << "-buffer" >>})
                = Cardinality({k \in 1..Len(Old) :
                    Old[k].id = Old[i].id \o << "-buffer" >>})

\* A task completed today exactly at the start of a block linked to it.
C15_Witness ==
  /\ Toggled /\ OnToday /\ Completing
  /\ \E i \in 1..Len(Old) : Linked(i) /\ Old[i].startTime = Req.currentTime

\* A toggle that took back the completion of a task of another date than
\* today, and the record the completion had read.
First == Req.first[1]
TwiceOffToday ==
  /\ Toggled /\ last.after = "toggle"
  /\ last.date # todayStr
  /\ \E k \in 1..Len(First.tasks) :
       First.tasks[k].id = Req.taskId /\ ~First.tasks[k].completed

\* C16, as stated: on a date other than today, toggling a task of the record
\* to completed and back restores the task's flag and leaves every block's
\* isCompleted as it was before the first toggle, the schedule otherwise
\* identical.
C16_TwiceRestores ==
  TwiceOffToday =>
    /\ Written.tasks = First.tasks
    /\ Written.schedule = First.schedule

\* C16, amended: on a date other than today, toggling a task of the record
\* to completed and back restores the task's flag and leaves the schedule as
\* it was but for the blocks linked to the task, which end not completed:
\* the value they had before when they were not completed then.
C16_TwiceRestoresUnlinked ==
  TwiceOffToday =>
    /\ Written.tasks = First.tasks
    /\ Len(Written.schedule) = Len(First.schedule)
    /\ \A i \in 1..Len(First.schedule) :
         Written.schedule[i]
           = [First.schedule[i] EXCEPT
                !.isCompleted = IF First.schedule[i].taskId = Req.taskId
                                THEN FALSE ELSE @]

\* A task of the day before toggled to completed and back, with a block
\* linked to it and a completed block linked to another task.
C16_Witness ==
  /\ TwiceOffToday
  /\ \E i \in 1..Len(First.schedule) : First.schedule[i].taskId = Req.taskId
  /\ \E i \in 1..Len(First.schedule) :
       First.schedule[i].taskId # Req.taskId /\ First.schedule[i].isCompleted

\* C17: a toggle that does not split (any toggle on another date than today,
\* any toggle to not completed) keeps the schedule's length and every
\* block's id, startTime, endTime, label and taskId, and sets isCompleted to
\* the task's new flag on exactly the blocks linked to the task; a buffer
\* block and a " (Done)" label that a split had left stay.
C17_NoSplitKeepsBlocks ==
  (Toggled /\ Known /\ (~OnToday \/ ~Completing)) =>
    /\ Len(Written.schedule) = Len(Old)
    /\ \A i \in 1..Len(Old) :
         Written.schedule[i]
           = [Old[i] EXCEPT
                !.isCompleted = IF Linked(i) THEN Completing ELSE @]

\* A task of today made not completed again after its completion had split
\* a block: the "(Done)" label and the buffer block are in the schedule the
\* toggle read, next to a block of another task.
C17_Witness ==
  /\ Toggled /\ Known /\ OnToday /\ ~Completing
  /\ \E i \in 1..Len(Old) : Linked(i) /\ Includes(Old[i].label, DoneTag)
  /\ \E i \in 1..Len(Old) : Old[i].label = EfficiencyBonus
  /\ \E i \in 1..Len(Old) : ~Linked(i) /\ Old[i].taskId # NullId

\* C18: toggling a taskId that is the id of no task of the record changes
\* nothing: the tasks and the schedule written are those read, isCompleted
\* of the blocks that carry that taskId included.
C18_UnknownTaskNoOp ==
  (Toggled /\ ~Known) =>
    /\ Written.tasks = Before.tasks
    /\ Written.schedule = Before.schedule

\* The blocks of a schedule that a toggle of taskId is not about: those
\* linked to another task or to none, but for the buffer blocks the split
\* makes.
RECURSIVE OtherBlocks(_, _, _)
OtherBlocks(schedule, taskId, made) ==
  IF schedule = << >> THEN << >>
  ELSE IF Head(schedule).taskId = taskId \/ Head(schedule).id \in made
       THEN OtherBlocks(Tail(schedule), taskId, made)
       ELSE << Head(schedule) >> \o OtherBlocks(Tail(schedule), taskId, made)

RECURSIVE OtherTasks(_, _)
OtherTasks(tasks, taskId) ==
  IF tasks = << >> THEN << >>
  ELSE IF Head(tasks).id = taskId THEN OtherTasks(Tail(tasks), taskId)
       ELSE << Head(tasks) >> \o OtherTasks(Tail(tasks), taskId)

\* C19: a toggle of a task changes nothing of the date's record but that
\* task's flag and the blocks linked to it: the other tasks, the other
\* blocks in their order, the explanation, the distractions and the
\* previousVersion are in the store after the toggle what they were in the
\* store before it.
C19_ToggleFrame ==
  [][last'.op = "handleToggleTask" =>
       LET taskId == last'.req[1].taskId
           was == getDayData(days, last'.date)
           is == days'[last'.date]
           made == {was.schedule[i].id \o << "-buffer" >> :
                      i \in {j \in 1..Len(was.schedule) :
                               was.schedule[j].taskId = taskId}}
                     \ {was.schedule[i].id : i \in 1..Len(was.schedule)}
       IN  /\ OtherTasks(is.tasks, taskId) = OtherTasks(was.tasks, taskId)
           /\ OtherBlocks(is.schedule, taskId, made)
                = OtherBlocks(was.schedule, taskId, {})
           /\ is.explanation = was.explanation
           /\ is.distractions = was.distractions
           /\ Field(is, "previousVersion") = Field(was, "previousVersion")]_vars

\* C20: reading a date the store holds no record of gives the empty record
\* of that date and does not add the date to the store: over a step that
\* writes nothing, the dates of the store stay the same and a second read
\* gives the record the first one gave.
C20_ReadAddsNothing ==
  [][\A d \in Dates \ DOMAIN days :
       /\ getDayData(days, d)
            = [tasks |-> << >>, schedule |-> << >>, explanation |-> "",
               date |-> d, distractions |-> << >>]
       /\ "previousVersion" \notin DOMAIN getDayData(days, d)
       /\ last'.op = "view" =>
            /\ DOMAIN days' = DOMAIN days
            /\ getDayData(days', d) = getDayData(days, d)]_vars

\* The view shows a date that the store holds no record of: the render has
\* read it, for the second time after the clock has moved.
C20_Witness ==
  /\ selectedDate \notin DOMAIN days
  /\ last.op = "view"
  /\ clock > 540

\* C21: after every update of the day store the persisted mapping is the
\* text of the new in-memory mapping whenever localStorage takes the write;
\* when it refuses, the persisted item stays what it was and the update
\* stays in memory: the plan a gateway answer or a chat plan brought is in
\* the store all the same.
C21_SavedAfterEveryUpdate ==
  [][/\ storage' = storage
     /\ storage = "ok" =>
          /\ focusOneData'.kind = "text" /\ focusOneData'.parses
          /\ focusOneData'.value = JSONstringify(days')
          /\ DOMAIN focusOneData'.value = DOMAIN days'
          /\ \A d \in DOMAIN days' :
               \A k \in DOMAIN focusOneData'.value[d] :
                  focusOneData'.value[d][k] = days'[d][k]
     /\ storage = "full" =>
          /\ focusOneData' = focusOneData
          /\ last'.op \in {"generated", "replanned", "handleApplyChatPlan"} =>
               /\ days' # days
               /\ Len(days'[last'.date].schedule) > 0]_vars

\* With a localStorage that takes the writes, the store after an undo that
\* followed a replan: its record holds previousVersion with no value, and
\* the persisted text holds no such key.
C21_Witness ==
  /\ storage = "ok"
  /\ last.op = "handleUndo" /\ last.after = "replan"
  /\ "previousVersion" \in DOMAIN days[last.date]
  /\ "previousVersion" \notin DOMAIN focusOneData.value[last.date]
  /\ Len(days[last.date].schedule) > 0

\* What the program found in localStorage when it started.
Loaded == last.req[1].item

\* C22: started with no persisted mapping or with one that does not parse,
\* the store is the empty mapping, to which the first effect adds today's
\* empty record, and every operation of the first view is open: choosing a
\* date, opening the planner, rescheduling, writing to the assistant.
C22_LoadFailureStartsEmpty ==
  (last.op = "init" /\ (Loaded.kind = "none" \/ ~Loaded.parses)) =>
    /\ DOMAIN days = {todayStr}
    /\ days[todayStr]
         = [tasks |-> << >>, schedule |-> << >>, explanation |-> "",
            date |-> todayStr, distractions |-> << >>]
    /\ mode = "FOCUS" /\ ~isGenerating
    /\ ENABLED (OpenPlanning /\ SaveEffect)
    /\ ENABLED (Reschedule /\ SaveEffect)
    /\ ENABLED (AssistantSend /\ SaveEffect)
    /\ ENABLED (\E d \in Dates : SelectDate(d) /\ SaveEffect)

\* The program started on a text that does not parse.
C22_Witness ==
  /\ last.op = "init"
  /\ Loaded.kind = "text" /\ ~Loaded.parses
  /\ DOMAIN Loaded.value # {}

\* s is a prefix of t.
IsPrefix(s, t) == Len(s) <= Len(t) /\ SubSeq(t, 1, Len(s)) = s

\* C23: the distractions of a date's record only grow at the end: when a
\* distraction is captured in Zen mode, also while another date than today
\* is selected, the sequence the record held is a prefix of the one it
\* holds afterwards.
C23_DistractionsAppendOnly ==
  [][last'.op = "handleUpdateDistractions" =>
       \A d \in DOMAIN days :
          IsPrefix(days[d].distractions, days'[d].distractions)]_vars

\* C24: every block of every stored schedule has startTime < endTime, the
\* blocks of the gateway and of a chat plan having it: the two halves of a
\* split and the truncated copy of a replan have it too.
C24_StartBeforeEnd ==
  \A d \in DOMAIN days :
     \A i \in 1..Len(days[d].schedule) :
        StrLess(days[d].schedule[i].startTime, days[d].schedule[i].endTime)

\* A schedule that holds a truncated copy, the completed half of a split
\* and its buffer block.
C24_Witness ==
  \E d \in DOMAIN days :
     /\ \E i \in 1..Len(days[d].schedule) :
          days[d].schedule[i].id[Len(days[d].schedule[i].id)] = "-truncated"
     /\ \E i \in 1..Len(days[d].schedule) :
          /\ days[d].schedule[i].id[Len(days[d].schedule[i].id)] = "-buffer"
          /\ i > 1
          /\ days[d].schedule[i - 1].endTime = days[d].schedule[i].startTime
          /\ Includes(days[d].schedule[i - 1].label, DoneTag)

\* C25: for all zero-padded "HH:MM" values a and b from 00:00 to 23:59 the
\* string comparisons of the replan and of the split, a < b and a <= b, say
\* what the comparison of hour * 60 + minute says, the numbers the view
\* compares.
C25_StringOrderIsTimeOrder ==
  \A m \in {n \in MinutesOfDay : clock <= n} :
     LET a == getCurrentTimeStr(clock)
         b == getCurrentTimeStr(m)
     IN  /\ Len(a) = 5 /\ a[3] = ":"
         /\ getMinutes(a) = clock
         /\ StrLess(a, b) <=> getMinutes(a) < getMinutes(b)
         /\ StrLessEq(a, b) <=> getMinutes(a) <= getMinutes(b)
         /\ StrLess(b, a) <=> getMinutes(b) < getMinutes(a)
         /\ StrLessEq(b, a) <=> getMinutes(b) <= getMinutes(a)

\* The clock reads 09:59: against 10:00 the first code unit decides,
\* against 09:05 the fourth.
C25_Witness ==
  /\ clock = 9 * 60 + 59
  /\ getCurrentTimeStr(clock) = << "0", "9", ":", "5", "9" >>
  /\ StrLess(getCurrentTimeStr(clock), << "1", "0", ":", "0", "0" >>)
  /\ StrLess(<< "0", "9", ":", "0", "5" >>, getCurrentTimeStr(clock))

\* C26: an update keyed by a date changes the record of no other date: in
\* every step, every date other than the one the step's handler worked on
\* keeps its record, and is in the store after the step exactly if it was
\* before.  This holds of the steps in which a handler returns from its
\* gateway call too, whatever was done to other dates in the meantime.
C26_OtherDatesUntouched ==
  [][\A e \in Dates :
       e # last'.date =>
         /\ e \in DOMAIN days' <=> e \in DOMAIN days
         /\ e \in DOMAIN days => days'[e] = days[e]]_vars

\* The day before as it was stored.
StoredDayBefore ==
  {saved["2024-05-01"] : saved \in {m \in SavedMappings : "2024-05-01" \in DOMAIN m}}

\* A replan of today has returned from the gateway and written today's
\* record, the user is looking at the day before, and the record of the day
\* before is one that a toggle has made: it is still in the store.
C26_Witness ==
  /\ last.op = "replanned" /\ last.date = todayStr
  /\ days[todayStr] # Req.currentData
  /\ selectedDate = "2024-05-01"
  /\ "2024-05-01" \in DOMAIN days
  /\ days["2024-05-01"] \notin StoredDayBefore

\* C27: a record's previousVersion is set only by a replan and cleared only
\* by an undo: a step that leaves a date with another previousVersion than it
\* had is the write of a replan when it leaves one, and an undo when it
\* leaves none; toggles, task edits, generation, a chat plan and distractions
\* leave every date's previousVersion as it was.
C27_SnapshotSetByReplanClearedByUndo ==
  [][\A d \in Dates :
       LET was == PreviousVersionOf(getDayData(days, d))
           is  == PreviousVersionOf(getDayData(days', d))
       IN  is # was =>
             /\ is # Undefined => last'.op \in ReplanWrites
             /\ is = Undefined => last'.op = "handleUndo"]_vars

\* C28: the generating flag is true in exactly the states where a generate
\* or replan call is awaiting the gateway.
C28_GeneratingIffOutstanding == isGenerating <=> inflight # << >>

\* C29: the block ids of a day's schedule are pairwise distinct, in every
\* day of the store, whatever toggles, replans and undos have been made: an
\* id with "-buffer" or "-truncated" appended is the id of no other block of
\* its schedule.  The stored schedules have distinct ids and every answer of
\* the gateway is stamped with a later Date.now().
C29_BlockIdsDistinct ==
  \A d \in DOMAIN days :
     \A i, j \in 1..Len(days[d].schedule) :
        i # j => days[d].schedule[i].id # days[d].schedule[j].id

\* Today's schedule after a split and a replan: a block next to the buffer
\* cut from it, a truncated copy, and a block the gateway has stamped.
C29_Witness ==
  LET sch == days[todayStr].schedule
  IN  /\ \E i, j \in 1..Len(sch) : sch[j].id = Append(sch[i].id, "-buffer")
      /\ \E i \in 1..Len(sch) : sch[i].id[Len(sch[i].id)] = "-truncated"
      /\ \E i \in 1..Len(sch) : \E n \in 1..MaxCalls : \E k \in 0..Len(sch) :
           sch[i].id = StampedId(sch[i].id[1], n, k)

\* The plans generateDailyPlan can return for the tasks of a request: the
\* gateway's answers for them, stamped at any time, or the fallback.
PlansFor(req) ==
  {generateDailyPlan(data, n) : data \in GenerateAnswers(req.currentData.tasks), n \in 1..(MaxCalls + 1)} \cup {generateDailyPlanFailed}

=============================================================================
